---- MODULE Spec2Model ----
(***************************************************************************)
(* Model of PostInstallCommand (services/analytics-type.ts): the           *)
(* dev-post-install command and the two warning procedures it dispatches   *)
(* to.  The logger is modelled as the sequence of calls made on it; every  *)
(* message is represented by its first line (the remaining lines are       *)
(* constant text joined with os.EOL).                                      *)
(***************************************************************************)
EXTENDS Integers, Sequences, FiniteSets, TLC

VARIABLES
    platform,     \* process.platform of the host
    sudoUser,     \* process.env.SUDO_USER
    clientName,   \* $staticConfig.CLIENT_NAME
    sysInfo,      \* the ISysInfoData that $sysInfo.getSysInfo() returns on this host
    pc,           \* position of the command inside execute
    out,          \* calls made on $logger during the current run, in order
    trace,        \* collaborator calls made by the current run, in order
    runs,         \* number of times execute has been invoked
    prevOut       \* logger calls of the previous completed run

vars == <<platform, sudoUser, clientName, sysInfo, pc, out, trace, runs, prevOut>>

\* Number of invocations of execute that are explored.
MaxRuns == 2

\* JavaScript undefined, for the optional string values.
Undefined == "<undefined>"

Platforms == {"win32", "darwin", "linux"}
ClientNames == {"tns", "appbuilder", "other"}
SudoUsers == {Undefined, "", "alice"}
VersionValues == {Undefined, "", "1.9"}

\* JavaScript truthiness of an optional string: undefined and "" are falsy.
Falsy(v) == v = Undefined \/ v = ""

ISysInfoData ==
    [adbVer : VersionValues, antVer : VersionValues, androidInstalled : BOOLEAN,
     xcodeVer : VersionValues, itunesInstalled : BOOLEAN, javaVer : VersionValues]

\* hostInfo.isWindows() / hostInfo.isDarwin() of ../host-info
isWindows(p) == p = "win32"
isDarwin(p) == p = "darwin"

Warn(t) == [level |-> "warn", text |-> t]
Out(t) == [level |-> "out", text |-> t]

CHOCOLATEY_TIP == "TIP: To avoid setting up the necessary environment variables, you can use the chocolatey package manager to install the Android SDK and its dependencies."
HOMEBREW_TIP == "TIP: To avoid setting up the necessary environment variables, you can use the Homebrew package manager to install the Android SDK and its dependencies."

NS_ADB_WARNING == "WARNING: adb from the Android SDK is not installed or is not configured properly."
NS_ADB_DETAIL == "For Android-related operations, the NativeScript CLI will use a built-in version of adb."
NS_ANT_WARNING == "WARNING: Apache Ant is not installed or is not configured properly."
NS_ANT_DETAIL == "You will not be able to build your projects for Android."
NS_ANDROID_WARNING == "WARNING: The Android SDK is not installed or is not configured properly."
NS_ANDROID_DETAIL == "You will not be able to build your projects for Android and run them in the native emulator."
NS_XCODE_WARNING == "WARNING: Xcode is not installed or is not configured properly."
NS_XCODE_DETAIL == "You will not be able to build your projects for iOS or run them in the iOS Simulator."
NS_ITUNES_WARNING == "WARNING: iTunes is not installed."
NS_ITUNES_DETAIL == "You will not be able to work with iOS devices via cable connection."
NS_JDK_WARNING == "WARNING: The Java Development Kit (JDK) is not installed or is not configured properly."
NS_JDK_DETAIL == "You will not be able to work with the Android SDK and you might not be able"

AB_ADB_WARNING == "WARNING: adb from the Android SDK is not installed or is not configured properly. "
AB_ADB_DETAIL == "For Android-related operations, the AppBuilder CLI will use a built-in version of adb."
AB_ANDROID_WARNING == "WARNING: The Android SDK is not installed or is not configured properly."
AB_ANDROID_DETAIL == "You will not be able to run your apps in the native emulator. To be able to run apps"
AB_ITUNES_WARNING == "WARNING: iTunes is not installed."
AB_ITUNES_DETAIL == "You will not be able to work with iOS devices via cable connection."
AB_JDK_WARNING == "WARNING: The Java Development Kit (JDK) is not installed or is not configured properly."
AB_JDK_DETAIL == "You will not be able to work with the Android SDK and you might not be able"

\* Variant: the branches name the other platform's package manager.
printPackageManagerTipSwapped(p) ==
    IF isWindows(p) THEN <<Out(HOMEBREW_TIP)>>
    ELSE IF isDarwin(p) THEN <<Out(CHOCOLATEY_TIP)>>
    ELSE <<>>

\* Variant: the tip is remembered as shown and not printed by a later run.
printPackageManagerTipOnce(p) ==
    IF runs > 1 THEN <<>>
    ELSE IF isWindows(p) THEN <<Out(CHOCOLATEY_TIP)>>
    ELSE IF isDarwin(p) THEN <<Out(HOMEBREW_TIP)>>
    ELSE <<>>

\* printPackageManagerTip: the logger calls it makes on platform p.
printPackageManagerTip(p) ==
    IF isWindows(p) THEN <<Out(CHOCOLATEY_TIP)>>
    ELSE IF isDarwin(p) THEN <<Out(HOMEBREW_TIP)>>
    ELSE <<>>

(* The conditional blocks of printNSWarnings, in source order. *)
NSAdbBlock(s, p) ==
    IF Falsy(s.adbVer)
    THEN <<Warn(NS_ADB_WARNING), Out(NS_ADB_DETAIL)>> \o printPackageManagerTip(p)
    ELSE <<>>

\* Variant: the Ant block keeps the headline of the block it was copied from.
NSAntBlockCopied(s, p) ==
    IF Falsy(s.antVer)
    THEN <<Warn(NS_ADB_WARNING), Out(NS_ANT_DETAIL)>> \o printPackageManagerTip(p)
    ELSE <<>>

NSAntBlock(s, p) ==
    IF Falsy(s.antVer)
    THEN <<Warn(NS_ANT_WARNING), Out(NS_ANT_DETAIL)>> \o printPackageManagerTip(p)
    ELSE <<>>

\* Variant: the Android SDK check is chained to the adb check with else-if.
NSAndroidBlockChained(s, p) ==
    IF ~Falsy(s.adbVer) /\ ~s.androidInstalled
    THEN <<Warn(NS_ANDROID_WARNING), Out(NS_ANDROID_DETAIL)>> \o printPackageManagerTip(p)
    ELSE <<>>

NSAndroidBlock(s, p) ==
    IF ~s.androidInstalled
    THEN <<Warn(NS_ANDROID_WARNING), Out(NS_ANDROID_DETAIL)>> \o printPackageManagerTip(p)
    ELSE <<>>

\* Variant: the Xcode check without the host test.
NSXcodeBlockAnyHost(s, p) ==
    IF Falsy(s.xcodeVer)
    THEN <<Warn(NS_XCODE_WARNING), Out(NS_XCODE_DETAIL)>>
    ELSE <<>>

\* Variant: the Xcode block also prints the package-manager tip.
NSXcodeBlockWithTip(s, p) ==
    IF isDarwin(p) /\ Falsy(s.xcodeVer)
    THEN <<Warn(NS_XCODE_WARNING), Out(NS_XCODE_DETAIL)>> \o printPackageManagerTip(p)
    ELSE <<>>

NSXcodeBlock(s, p) ==
    IF isDarwin(p) /\ Falsy(s.xcodeVer)
    THEN <<Warn(NS_XCODE_WARNING), Out(NS_XCODE_DETAIL)>>
    ELSE <<>>

NSItunesBlock(s, p) ==
    IF ~s.itunesInstalled
    THEN <<Warn(NS_ITUNES_WARNING), Out(NS_ITUNES_DETAIL)>>
    ELSE <<>>

\* Variant: the JDK check with the negation dropped.
NSJavaBlockInverted(s, p) ==
    IF ~Falsy(s.javaVer)
    THEN <<Warn(NS_JDK_WARNING), Out(NS_JDK_DETAIL)>>
    ELSE <<>>

NSJavaBlock(s, p) ==
    IF Falsy(s.javaVer)
    THEN <<Warn(NS_JDK_WARNING), Out(NS_JDK_DETAIL)>>
    ELSE <<>>

(* The conditional blocks of printAppBuilderWarnings, in source order. *)
ABAdbBlock(s, p) ==
    IF Falsy(s.adbVer)
    THEN <<Warn(AB_ADB_WARNING), Out(AB_ADB_DETAIL)>> \o printPackageManagerTip(p)
    ELSE <<>>

\* Variant: the Android SDK block without its call of printPackageManagerTip.
ABAndroidBlockNoTip(s, p) ==
    IF ~s.androidInstalled
    THEN <<Warn(AB_ANDROID_WARNING), Out(AB_ANDROID_DETAIL)>>
    ELSE <<>>

ABAndroidBlock(s, p) ==
    IF ~s.androidInstalled
    THEN <<Warn(AB_ANDROID_WARNING), Out(AB_ANDROID_DETAIL)>> \o printPackageManagerTip(p)
    ELSE <<>>

ABItunesBlock(s, p) ==
    IF ~s.itunesInstalled
    THEN <<Warn(AB_ITUNES_WARNING), Out(AB_ITUNES_DETAIL)>>
    ELSE <<>>

ABJavaBlock(s, p) ==
    IF Falsy(s.javaVer)
    THEN <<Warn(AB_JDK_WARNING), Out(AB_JDK_DETAIL)>>
    ELSE <<>>

\* Variant: every client but AppBuilder is taken for NativeScript.
isNativeScriptNotAppBuilder(c) == c # "appbuilder"

\* let isNativeScript = this.$staticConfig.CLIENT_NAME === "tns"
isNativeScript(c) == c = "tns"

\* Variant: the ownership repair without the win32 test.
needsOwnerPatchAnyHost(p, u) == ~Falsy(u)

\* The ownership repair is performed only off win32 and under sudo.
needsOwnerPatch(p, u) == p # "win32" /\ ~Falsy(u)

Init ==
    /\ platform \in Platforms
    /\ sudoUser \in SudoUsers
    /\ clientName \in ClientNames
    /\ sysInfo \in ISysInfoData
    /\ pc = "idle"
    /\ out = <<>>
    /\ trace = <<>>
    /\ runs = 0
    /\ prevOut = <<>>

Env == <<platform, sudoUser, clientName, sysInfo>>

\* A step of the command that only moves on and records a collaborator call.
Goto(from, to, calls) ==
    /\ pc = from
    /\ pc' = to
    /\ trace' = trace \o calls
    /\ UNCHANGED <<Env, out, runs, prevOut>>

\* A step of a warning procedure: one conditional block writes to the logger.
Emit(from, to, entries) ==
    /\ pc = from
    /\ pc' = to
    /\ out' = out \o entries
    /\ UNCHANGED <<Env, trace, runs, prevOut>>

\* The command is invoked.
execute ==
    /\ pc \in {"idle", "done"}
    /\ runs < MaxRuns
    /\ pc' = "owner"
    /\ runs' = runs + 1
    /\ prevOut' = out
    /\ out' = <<>>
    /\ trace' = <<>>
    /\ UNCHANGED Env

setCurrentUserAsOwner ==
    Goto("owner", "help",
         IF needsOwnerPatch(platform, sudoUser) THEN <<"setCurrentUserAsOwner">> ELSE <<>>)

generateHtmlPages == Goto("help", "sysinfo", <<"generateHtmlPages">>)

getSysInfo == Goto("sysinfo", "dispatch", <<"getSysInfo">>)

dispatch ==
    IF isNativeScript(clientName)
    THEN Goto("dispatch", "ns_adb", <<"printNSWarnings">>)
    ELSE Goto("dispatch", "ab_adb", <<"printAppBuilderWarnings">>)

NSAdb == Emit("ns_adb", "ns_ant", NSAdbBlock(sysInfo, platform))
NSAnt == Emit("ns_ant", "ns_android", NSAntBlock(sysInfo, platform))
NSAndroid == Emit("ns_android", "ns_xcode", NSAndroidBlock(sysInfo, platform))
NSXcode == Emit("ns_xcode", "ns_itunes", NSXcodeBlock(sysInfo, platform))
NSItunes == Emit("ns_itunes", "ns_java", NSItunesBlock(sysInfo, platform))
NSJava == Emit("ns_java", "autocomplete", NSJavaBlock(sysInfo, platform))

ABAdb == Emit("ab_adb", "ab_android", ABAdbBlock(sysInfo, platform))
ABAndroid == Emit("ab_android", "ab_itunes", ABAndroidBlock(sysInfo, platform))
ABItunes == Emit("ab_itunes", "ab_java", ABItunesBlock(sysInfo, platform))
ABJava == Emit("ab_java", "autocomplete", ABJavaBlock(sysInfo, platform))

tryExecuteCommand == Goto("autocomplete", "done", <<"autocomplete">>)

\* A future that execute waits on is rejected: wait() rethrows and the
\* command ends without making any further call.
WaitPoints ==
    {"help", "autocomplete"} \cup
    (IF needsOwnerPatch(platform, sudoUser) THEN {"owner"} ELSE {})

waitThrows ==
    /\ pc \in WaitPoints
    /\ pc' = "failed"
    /\ UNCHANGED <<Env, out, trace, runs, prevOut>>

Next ==
    \/ execute
    \/ setCurrentUserAsOwner
    \/ generateHtmlPages
    \/ getSysInfo
    \/ dispatch
    \/ NSAdb
    \/ NSAnt
    \/ NSAndroid
    \/ NSXcode
    \/ NSItunes
    \/ NSJava
    \/ ABAdb
    \/ ABAndroid
    \/ ABItunes
    \/ ABJava
    \/ tryExecuteCommand
    \/ waitThrows

Spec == Init /\ [][Next]_vars

\* The command body is sequential code: a step that can be taken is taken.
FairSpec == Spec /\ WF_vars(Next)

(***************************************************************************)
(* Vocabulary of the properties: rules, personas and platforms.            *)
(***************************************************************************)
IsWarn(e) == e.level = "warn"
IsTip(e) == e.level = "out" /\ e.text \in {CHOCOLATEY_TIP, HOMEBREW_TIP}

\* The rule a headline belongs to ("?" for a text that is no headline).
RuleOfHeadline(t) ==
    CASE t \in {NS_ADB_WARNING, AB_ADB_WARNING} -> "adb"
      [] t = NS_ANT_WARNING -> "ant"
      [] t \in {NS_ANDROID_WARNING, AB_ANDROID_WARNING} -> "android"
      [] t = NS_XCODE_WARNING -> "xcode"
      [] t \in {NS_ITUNES_WARNING, AB_ITUNES_WARNING} -> "itunes"
      [] t \in {NS_JDK_WARNING, AB_JDK_WARNING} -> "jdk"
      [] OTHER -> "?"

\* The rule a detail text belongs to.
RuleOfDetail(t) ==
    CASE t \in {NS_ADB_DETAIL, AB_ADB_DETAIL} -> "adb"
      [] t = NS_ANT_DETAIL -> "ant"
      [] t \in {NS_ANDROID_DETAIL, AB_ANDROID_DETAIL} -> "android"
      [] t = NS_XCODE_DETAIL -> "xcode"
      [] t \in {NS_ITUNES_DETAIL, AB_ITUNES_DETAIL} -> "itunes"
      [] t \in {NS_JDK_DETAIL, AB_JDK_DETAIL} -> "jdk"
      [] OTHER -> "?"

RuleNames == <<"adb", "ant", "android", "xcode", "itunes", "jdk">>
RuleIndex(n) == IF n \in {RuleNames[k] : k \in 1..6}
                THEN CHOOSE k \in 1..6 : RuleNames[k] = n
                ELSE 0
TipEligible == {"adb", "ant", "android"}

WarnAt(o) == {i \in 1..Len(o) : IsWarn(o[i])}
TipAt(o) == {i \in 1..Len(o) : IsTip(o[i])}
HasWarning(o, n) == \E i \in WarnAt(o) : RuleOfHeadline(o[i].text) = n

Persona == IF clientName = "tns" THEN "PrimaryProduct" ELSE "LegacyProduct"
Platform == IF platform = "win32" THEN "Windows"
            ELSE IF platform = "darwin" THEN "Darwin" ELSE "Other"

\* The warning procedure of the current run has returned.
Composed == pc \in {"autocomplete", "done"}
Composing == pc \in {"ns_adb", "ns_ant", "ns_android", "ns_xcode", "ns_itunes", "ns_java",
                     "ab_adb", "ab_android", "ab_itunes", "ab_java"}

AllPresent(s) ==
    /\ ~Falsy(s.adbVer) /\ ~Falsy(s.antVer) /\ ~Falsy(s.xcodeVer) /\ ~Falsy(s.javaVer)
    /\ s.androidInstalled /\ s.itunesInstalled

(***************************************************************************)
(* C1: the Xcode warning is in the output if and only if the persona is    *)
(* PrimaryProduct, the platform is Darwin and xcodeVersion is absent; in   *)
(* every other combination it never appears.                               *)
(***************************************************************************)
XcodeGate == Persona = "PrimaryProduct" /\ Platform = "Darwin" /\ Falsy(sysInfo.xcodeVer)

C1_XcodeIffGate ==
    /\ HasWarning(out, "xcode") => XcodeGate
    /\ Composed /\ XcodeGate => HasWarning(out, "xcode")

C1_Witness ==
    /\ pc = "done" /\ HasWarning(out, "xcode")
    /\ ~Falsy(sysInfo.adbVer) /\ ~sysInfo.itunesInstalled

(***************************************************************************)
(* C2: the output composed for LegacyProduct contains neither the Ant      *)
(* warning nor the Xcode warning, on every platform and for every          *)
(* snapshot.                                                               *)
(***************************************************************************)
C2_LegacyNoAntNoXcode ==
    Persona = "LegacyProduct" =>
        /\ ~HasWarning(out, "ant")
        /\ ~HasWarning(out, "xcode")
        /\ \A i \in 1..Len(out) : out[i].text \notin {NS_ANT_DETAIL, NS_XCODE_DETAIL}

C2_Witness ==
    /\ pc = "done" /\ Persona = "LegacyProduct" /\ Platform = "Darwin"
    /\ Falsy(sysInfo.antVer) /\ Falsy(sysInfo.xcodeVer)
    /\ Len(out) > 0

(***************************************************************************)
(* C3: the warnings of the output are in strictly increasing rule-table    *)
(* order (adb, Ant, Android SDK, Xcode, iTunes, JDK): each at most once,   *)
(* and an earlier rule's warning before a later rule's, for both personas. *)
(***************************************************************************)
C3_TableOrder ==
    /\ \A i \in WarnAt(out) : RuleIndex(RuleOfHeadline(out[i].text)) \in 1..6
    /\ \A i, j \in WarnAt(out) :
          i < j => RuleIndex(RuleOfHeadline(out[i].text)) < RuleIndex(RuleOfHeadline(out[j].text))

C3_Witness ==
    /\ pc = "done" /\ Persona = "PrimaryProduct"
    /\ Cardinality(WarnAt(out)) = 6

(***************************************************************************)
(* C4: on Windows and Darwin every warning of rule 1, 2 or 3 is directly   *)
(* followed by exactly one tip, so there are as many tips as tip-eligible  *)
(* warnings; on Other there is no tip; no tip follows the warning of rule  *)
(* 4, 5 or 6 and no tip appears without a tip-eligible warning.            *)
(***************************************************************************)
C4_TipPerFiring ==
    /\ \A i \in WarnAt(out) :
          /\ i + 1 <= Len(out)
          /\ out[i + 1].level = "out" /\ ~IsTip(out[i + 1])
          /\ IF RuleOfHeadline(out[i].text) \in TipEligible /\ Platform \in {"Windows", "Darwin"}
             THEN /\ i + 2 <= Len(out) /\ IsTip(out[i + 2])
                  /\ i + 3 <= Len(out) => ~IsTip(out[i + 3])
             ELSE i + 2 <= Len(out) => ~IsTip(out[i + 2])
    /\ \A k \in TipAt(out) :
          /\ k >= 3 /\ IsWarn(out[k - 2])
          /\ RuleOfHeadline(out[k - 2].text) \in TipEligible
    /\ Cardinality(TipAt(out)) =
          IF Platform = "Other" THEN 0
          ELSE Cardinality({i \in WarnAt(out) : RuleOfHeadline(out[i].text) \in TipEligible})

C4_Witness ==
    /\ pc = "done" /\ Persona = "LegacyProduct" /\ Platform = "Windows"
    /\ Cardinality(TipAt(out)) = 2
    /\ Cardinality(WarnAt(out)) = 4

(***************************************************************************)
(* C5: when every capability is present (and iTunes and the Android SDK    *)
(* are installed) the output is empty, for both personas and all three     *)
(* platforms.                                                              *)
(***************************************************************************)
C5_AllPresentEmpty == AllPresent(sysInfo) => out = <<>>

C5_Witness == pc = "done" /\ AllPresent(sysInfo) /\ out = <<>>

(***************************************************************************)
(* C6: the output of the persona's procedure equals one pass over the      *)
(* six-rule table: a rule's warning is emitted exactly when its persona    *)
(* gate, platform gate and own predicate pass, and a tip-eligible warning  *)
(* is followed by the platform tip.                                        *)
(***************************************************************************)
RulePersonas(n) == IF n \in {"ant", "xcode"} THEN {"PrimaryProduct"}
                   ELSE {"PrimaryProduct", "LegacyProduct"}
RulePlatforms(n) == IF n = "xcode" THEN {"Darwin"} ELSE {"Windows", "Darwin", "Other"}
RulePredicate(n, s) ==
    CASE n = "adb" -> Falsy(s.adbVer)
      [] n = "ant" -> Falsy(s.antVer)
      [] n = "android" -> ~s.androidInstalled
      [] n = "xcode" -> Falsy(s.xcodeVer)
      [] n = "itunes" -> ~s.itunesInstalled
      [] n = "jdk" -> Falsy(s.javaVer)

TableTip(plat) ==
    IF plat = "Windows" THEN <<[kind |-> "tip", id |-> "chocolatey"]>>
    ELSE IF plat = "Darwin" THEN <<[kind |-> "tip", id |-> "homebrew"]>>
    ELSE <<>>

RuleOutput(n, s, per, plat) ==
    IF per \in RulePersonas(n) /\ plat \in RulePlatforms(n) /\ RulePredicate(n, s)
    THEN <<[kind |-> "warning", id |-> n]>> \o (IF n \in TipEligible THEN TableTip(plat) ELSE <<>>)
    ELSE <<>>

RECURSIVE composeFrom(_, _, _, _)
composeFrom(k, s, per, plat) ==
    IF k > 6 THEN <<>>
    ELSE RuleOutput(RuleNames[k], s, per, plat) \o composeFrom(k + 1, s, per, plat)

compose(s, per, plat) == composeFrom(1, s, per, plat)

\* The logger calls read as warnings (headline and its detail) and tips.
RECURSIVE Warnings(_)
Warnings(o) ==
    IF o = <<>> THEN <<>>
    ELSE IF IsWarn(o[1]) /\ Len(o) >= 2 /\ o[2].level = "out"
            /\ RuleOfDetail(o[2].text) = RuleOfHeadline(o[1].text)
         THEN <<[kind |-> "warning", id |-> RuleOfHeadline(o[1].text)]>>
              \o Warnings(SubSeq(o, 3, Len(o)))
    ELSE IF IsTip(o[1])
         THEN <<[kind |-> "tip",
                 id |-> IF o[1].text = CHOCOLATEY_TIP THEN "chocolatey" ELSE "homebrew"]>>
              \o Warnings(Tail(o))
    ELSE <<[kind |-> "malformed", id |-> o[1].text]>> \o Warnings(Tail(o))

C6_EqualsRuleTable == Composed => Warnings(out) = compose(sysInfo, Persona, Platform)

C6_Witness ==
    /\ pc = "done" /\ Persona = "PrimaryProduct" /\ Platform = "Darwin"
    /\ Falsy(sysInfo.adbVer) /\ ~sysInfo.androidInstalled /\ Falsy(sysInfo.xcodeVer)
    /\ ~Falsy(sysInfo.antVer)
    /\ Len(Warnings(out)) >= 5

(***************************************************************************)
(* C7: the tip depends on the platform alone: the chocolatey tip on        *)
(* Windows, the Homebrew tip on Darwin, none on Other, whatever the        *)
(* persona, the snapshot and the rule that triggered it.                   *)
(***************************************************************************)
C7_TipOfPlatform ==
    \A k \in TipAt(out) :
        /\ Platform # "Other"
        /\ out[k].text = IF Platform = "Windows" THEN CHOCOLATEY_TIP ELSE HOMEBREW_TIP

C7_Witness ==
    /\ pc = "done" /\ Platform = "Darwin" /\ Persona = "PrimaryProduct"
    /\ Cardinality(TipAt(out)) = 3

ExampleSnapshot(s) ==
    /\ Falsy(s.adbVer) /\ ~Falsy(s.antVer) /\ s.androidInstalled
    /\ Falsy(s.xcodeVer) /\ s.itunesInstalled /\ ~Falsy(s.javaVer)

C9_Examples ==
    Composed /\ ExampleSnapshot(sysInfo) =>
        /\ clientName = "tns" /\ platform = "darwin" =>
              out = <<Warn(NS_ADB_WARNING), Out(NS_ADB_DETAIL), Out(HOMEBREW_TIP),
                      Warn(NS_XCODE_WARNING), Out(NS_XCODE_DETAIL)>>
        /\ clientName # "tns" /\ platform = "win32" =>
              out = <<Warn(AB_ADB_WARNING), Out(AB_ADB_DETAIL), Out(CHOCOLATEY_TIP)>>

C9_Witness ==
    /\ pc = "done" /\ ExampleSnapshot(sysInfo)
    /\ clientName = "tns" /\ platform = "darwin" /\ Len(out) = 5

(***************************************************************************)
(* C10: execute makes its calls in the order ownership repair (only off    *)
(* win32 with SUDO_USER set), help pages, system info, one warning         *)
(* procedure (printNSWarnings exactly for client "tns"), autocomplete; no  *)
(* warning precedes the help pages, and autocomplete is invoked once,      *)
(* after the last warning.                                                 *)
(***************************************************************************)
ExpectedCalls ==
    (IF platform # "win32" /\ sudoUser \notin {Undefined, ""}
     THEN <<"setCurrentUserAsOwner">> ELSE <<>>)
    \o <<"generateHtmlPages", "getSysInfo",
         IF clientName = "tns" THEN "printNSWarnings" ELSE "printAppBuilderWarnings",
         "autocomplete">>

Called(c) == \E i \in 1..Len(trace) : trace[i] = c

====
